---- MODULE Spec2Model ----
\* Model of app.py: a Streamlit script that is re-executed top to bottom on
\* every user interaction, with st.session_state as the only state that
\* survives a rerun, and get_response as the four-step pipeline
\* (generate SQL, explain SQL, run SQL, summarize).
EXTENDS Integers, Sequences, FiniteSets, TLC

\* ---------------------------------------------------------------- bounds
\* Number of script runs of one session (the first load included).
MaxRuns == 2
\* Text lengths are drawn from 0 and from limit-Delta .. limit+Delta.
Delta == 1

\* ------------------------------------------------------- program constants
SqlSchemaLimit == 6000
AnswerSchemaLimit == 4000
ResponseLimit == 3000
\* len("Error running query: ")
MarkerLen == 21

\* ------------------------------------------------------------------ texts
\* Short texts (user input, completions, message contents) are sequences of
\* characters.  Long opaque texts (table info, query results, exception
\* messages) are sequences of chunks [src, lo, hi): the characters lo..hi-1
\* of the named source text, so that slicing and concatenation are computed
\* on lengths of thousands of characters.

\* Texts typed into the chat input: empty, whitespace only, and non-blank
\* with and without surrounding whitespace.
Inputs == {<<>>, <<" ">>, <<" ", " ">>, <<"a">>, <<" ", "a">>, <<"a", " ">>}

\* st.chat_input returns None unless the rerun was caused by a submission.
None == [is_none |-> TRUE, text |-> <<>>]
Str(s) == [is_none |-> FALSE, text |-> s]

IsSpace(c) == c = " "

RECURSIVE lstrip(_)
lstrip(s) == IF s # <<>> /\ IsSpace(Head(s)) THEN lstrip(Tail(s)) ELSE s

RECURSIVE rstrip(_)
rstrip(s) ==
    IF s # <<>> /\ IsSpace(s[Len(s)]) THEN rstrip(SubSeq(s, 1, Len(s) - 1)) ELSE s

\* str.strip()
strip(s) == rstrip(lstrip(s))

Chunk(src, lo, hi) == [src |-> src, lo |-> lo, hi |-> hi]
Text(src, n) == IF n = 0 THEN <<>> ELSE <<Chunk(src, 0, n)>>

RECURSIVE TextLen(_)
TextLen(t) == IF t = <<>> THEN 0 ELSE (t[1].hi - t[1].lo) + TextLen(Tail(t))

\* t[:n] for n >= 0
RECURSIVE Slice_off_by_one(_, _)
Slice_off_by_one(t, n) ==
    IF t = <<>> \/ n < 0 THEN <<>>
    ELSE LET c == t[1]
             len == c.hi - c.lo
         IN  IF len <= n THEN <<c>> \o Slice_off_by_one(Tail(t), n - len)
             ELSE <<Chunk(c.src, c.lo, c.lo + n + 1)>>

RECURSIVE Slice(_, _)
Slice(t, n) ==
    IF t = <<>> \/ n <= 0 THEN <<>>
    ELSE LET c == t[1]
             len == c.hi - c.lo
         IN  IF len <= n THEN <<c>> \o Slice(Tail(t), n - len)
             ELSE <<Chunk(c.src, c.lo, c.lo + n)>>

\* f"Error running query: {e}"
MarkerText == Text("Error running query: ", MarkerLen)
ErrorText(e) == MarkerText \o e

\* str(response_data): db.run returns a str and the except branch builds one.
str(t) == t

Around(limit) == {limit + d : d \in (0 - Delta)..Delta}
\* db.get_table_info()
TableInfos ==
    {Text("table_info", n) : n \in {0} \cup Around(AnswerSchemaLimit) \cup Around(SqlSchemaLimit)}
\* db.run(query), when it returns
QueryResults == {Text("result", n) : n \in {0} \cup Around(ResponseLimit)}
\* str(e) of the exception db.run(query) raises
QueryErrors == {Text("exception", n) : n \in {0} \cup Around(ResponseLimit - MarkerLen)}

\* Completions of the hosted model: any text, the empty one included.
Queries == {<<>>, <<"Q">>}
Explanations == {<<>>, <<"E">>}
Answers == {<<>>, <<"A">>}

\* --------------------------------------------------------------- messages
AIMessage(content) == [role |-> "AI", content |-> content]
HumanMessage(content) == [role |-> "Human", content |-> content]
Greeting == <<"Hello! I'm your SQL assistant. Ask me anything about your database.">>

NoOutputs == [set |-> FALSE, query |-> <<>>, explanation |-> <<>>, answer |-> <<>>]
NoPrompt == [schema |-> <<>>, question |-> <<>>, query |-> <<>>, response |-> <<>>]

VARIABLES
    pc,              \* position of the script; "idle" between runs
    runs,            \* script runs started so far
    submissions,     \* chat submissions made so far
    widget_value,    \* what st.chat_input will return in this run
    input_rendered,  \* the chat input is on the page (line 159 was reached)
    session_keys,    \* keys present in st.session_state
    session_db,      \* st.session_state.db (0 while absent)
    chat_history,    \* st.session_state.chat_history
    db,              \* module-level db of the current run (0 before line 31)
    constructed,     \* SQLDatabase objects constructed in this session
    db_used,         \* handles on which get_response called a method
    user_query,      \* line 159
    schema,          \* last db.get_table_info() result, before slicing
    sql_schema,      \* get_schema's return value, in the SQL prompt
    query,           \* line 87
    explanation,     \* line 98
    response_data,   \* lines 102/104
    schema_text,     \* line 120
    final_prompt,    \* inputs of final_chain.invoke, lines 122-127
    final_answer,    \* line 122
    outputs,         \* line 167
    calls,           \* external calls of the current get_response, in order
    explain_arg,     \* query text substituted into the explanation prompt
    run_arg,         \* query text handed to db.run
    query_failed,    \* db.run raised in the current run
    before,          \* chat_history when the current run started
    outcome          \* how the last run ended

vars == <<pc, runs, submissions, widget_value, input_rendered, session_keys, session_db,
          chat_history, db, constructed, db_used, user_query, schema, sql_schema,
          query, explanation, response_data, schema_text, final_prompt,
          final_answer, outputs, calls, explain_arg, run_arg, query_failed,
          before, outcome>>

session == <<session_keys, session_db, chat_history>>
handles == <<db, constructed, db_used>>
locals == <<schema, sql_schema, query, explanation, response_data, schema_text,
            final_prompt, final_answer, explain_arg, run_arg>>

\* The locals of get_response and of the chain it runs, all unbound.
ClearLocals ==
    /\ schema' = <<>>
    /\ sql_schema' = <<>>
    /\ query' = <<>>
    /\ explanation' = <<>>
    /\ response_data' = <<>>
    /\ schema_text' = <<>>
    /\ final_prompt' = NoPrompt
    /\ final_answer' = <<>>
    /\ explain_arg' = <<>>
    /\ run_arg' = <<>>

Init ==
    /\ pc = "idle"
    /\ runs = 0
    /\ submissions = 0
    /\ widget_value = None
    /\ input_rendered = FALSE
    /\ session_keys = {}
    /\ session_db = 0
    /\ chat_history = <<>>
    /\ db = 0
    /\ constructed = 0
    /\ db_used = {}
    /\ user_query = None
    /\ schema = <<>>
    /\ sql_schema = <<>>
    /\ query = <<>>
    /\ explanation = <<>>
    /\ response_data = <<>>
    /\ schema_text = <<>>
    /\ final_prompt = NoPrompt
    /\ final_answer = <<>>
    /\ outputs = NoOutputs
    /\ calls = <<>>
    /\ explain_arg = <<>>
    /\ run_arg = <<>>
    /\ query_failed = FALSE
    /\ before = <<>>
    /\ outcome = "none"

\* ------------------------------------------------------------ UI helpers
\* Line 160: user_query and user_query.strip() != ""
IsSubmission_no_strip(v) == ~v.is_none /\ v.text # <<>>

IsSubmission(v) == ~v.is_none /\ v.text # <<>> /\ strip(v.text) # <<>>

\* Line 161: HumanMessage(content=user_query)
SubmittedMessage_stripped(v) == HumanMessage(strip(v.text))

SubmittedMessage(v) == HumanMessage(v.text)

\* Lines 133-135
SeedHistory_empty == <<>>

SeedHistory == <<AIMessage(Greeting)>>

\* Line 179: outputs.get("answer") or outputs.get("explanation") or outputs["query"]
ChatText_answer_only(o) == o.answer

ChatText(o) ==
    IF o.answer # <<>> THEN o.answer
    ELSE IF o.explanation # <<>> THEN o.explanation
    ELSE o.query

\* An exception nobody catches ends the script run: the locals are gone,
\* st.session_state keeps what it held.
Raise(kind) ==
    /\ pc' = "idle"
    /\ outcome' = kind
    /\ ClearLocals
    /\ UNCHANGED <<runs, submissions, widget_value, input_rendered, session, db, constructed,
                   user_query, outputs, query_failed, before>>

\* ------------------------------------------------------------ script runs
StartRun(v) ==
    /\ pc = "idle"
    /\ runs < MaxRuns
    /\ pc' = "init_database"
    /\ runs' = runs + 1
    /\ submissions' = IF v.is_none THEN submissions ELSE submissions + 1
    /\ widget_value' = v
    /\ input_rendered' = FALSE
    /\ db' = 0
    /\ user_query' = None
    /\ outputs' = NoOutputs
    /\ calls' = <<>>
    /\ query_failed' = FALSE
    /\ before' = chat_history
    /\ outcome' = "running"
    /\ UNCHANGED <<session, constructed, db_used, locals>>

\* The first load of the page, or a rerun that no chat submission caused.
Rerun == pc = "idle" /\ StartRun(None)

\* The user submits the chat input, which triggers a rerun of the script.
Submit == input_rendered /\ \E t \in Inputs : StartRun(Str(t))

\* Lines 25-40: SQLDatabase.from_uri connects; st.session_state.db keeps the
\* first handle only.
InitDatabase ==
    /\ pc = "init_database"
    /\ \/ /\ constructed' = constructed + 1
          /\ db' = constructed + 1
          /\ IF "db" \in session_keys
             THEN UNCHANGED <<session_keys, session_db>>
             ELSE /\ session_keys' = session_keys \cup {"db"}
                  /\ session_db' = constructed + 1
          /\ pc' = "init_chat_history"
          /\ UNCHANGED <<runs, submissions, widget_value, input_rendered, chat_history, db_used,
                         user_query, locals, outputs, calls, query_failed, before,
                         outcome>>
       \/ /\ Raise("init_error")
          /\ UNCHANGED <<calls, db_used>>

\* Lines 132-156
InitChatHistory ==
    /\ pc = "init_chat_history"
    /\ IF "chat_history" \in session_keys
       THEN UNCHANGED <<session_keys, chat_history>>
       ELSE /\ session_keys' = session_keys \cup {"chat_history"}
            /\ chat_history' = SeedHistory
    /\ pc' = "chat_input"
    /\ UNCHANGED <<runs, submissions, widget_value, input_rendered, session_db, handles,
                   user_query, locals, outputs, calls, query_failed, before, outcome>>

\* Lines 159-167, up to the call of get_response
ChatInput ==
    /\ pc = "chat_input"
    /\ user_query' = widget_value
    /\ input_rendered' = TRUE
    /\ IF IsSubmission(widget_value)
       THEN /\ chat_history' = Append(chat_history, SubmittedMessage(widget_value))
            /\ calls' = Append(calls, "get_response")
            /\ pc' = "get_schema"
            /\ outcome' = outcome
       ELSE /\ pc' = "idle"
            /\ outcome' = "skipped"
            /\ UNCHANGED <<chat_history, calls>>
    /\ UNCHANGED <<runs, submissions, widget_value, session_keys, session_db, handles, locals,
                   outputs, query_failed, before>>

\* ----------------------------------------------------------- get_response
\* get_response's parameter db is st.session_state.db (line 167).
\* A completion call that raises: nothing in get_response or in the script
\* catches it.
CompletionFailed_caught(step) ==
    /\ calls' = Append(calls, step)
    /\ chat_history' = Append(chat_history, AIMessage(<<"error">>))
    /\ pc' = "idle"
    /\ outcome' = "completion_error"
    /\ ClearLocals
    /\ UNCHANGED <<runs, submissions, widget_value, input_rendered, session_keys, session_db,
                   handles, user_query, outputs, query_failed, before>>

CompletionFailed(step) ==
    /\ calls' = Append(calls, step)
    /\ Raise("completion_error")
    /\ UNCHANGED db_used

\* Lines 72-74, run by the chain of line 87 before the prompt is filled.
GetSchema ==
    /\ pc = "get_schema"
    /\ calls' = Append(calls, "get_table_info")
    /\ db_used' = db_used \cup {session_db}
    /\ \/ /\ \E t \in TableInfos :
                /\ schema' = t
                /\ sql_schema' = Slice(t, SqlSchemaLimit)
          /\ pc' = "generate"
          /\ UNCHANGED <<runs, submissions, widget_value, input_rendered, session, db, constructed,
                         user_query, query, explanation, response_data, schema_text,
                         final_prompt, final_answer, explain_arg, run_arg, outputs,
                         query_failed, before, outcome>>
       \/ Raise("schema_error")

\* Lines 76-89: step 1, the SQL-generation completion.
GenerateSQL ==
    /\ pc = "generate"
    /\ \/ /\ \E q \in Queries : query' = q
          /\ calls' = Append(calls, "generate")
          /\ schema' = <<>>
          /\ sql_schema' = <<>>
          /\ pc' = "explain"
          /\ UNCHANGED <<runs, submissions, widget_value, input_rendered, session, handles,
                         user_query, explanation, response_data, schema_text,
                         final_prompt, final_answer, explain_arg, run_arg, outputs,
                         query_failed, before, outcome>>
       \/ CompletionFailed("generate")

\* Lines 92-98: step 2, the explanation completion.
ExplainSQL_skipped ==
    /\ pc = "explain"
    /\ pc' = "run"
    /\ UNCHANGED <<runs, submissions, widget_value, input_rendered, session, handles, user_query,
                   locals, outputs, calls, query_failed, before, outcome>>

ExplainSQL ==
    /\ pc = "explain"
    /\ \/ /\ explain_arg' = query
          /\ \E e \in Explanations : explanation' = e
          /\ calls' = Append(calls, "explain")
          /\ pc' = "run"
          /\ UNCHANGED <<runs, submissions, widget_value, input_rendered, session, handles,
                         user_query, schema, sql_schema, query, response_data,
                         schema_text, final_prompt, final_answer, run_arg, outputs,
                         query_failed, before, outcome>>
       \/ CompletionFailed("explain")

\* Lines 103-104: the except clause of step 3.
QueryFailed_propagates(e) ==
    /\ Raise("query_error")

QueryFailed_no_marker(e) ==
    /\ response_data' = e
    /\ run_arg' = query
    /\ query_failed' = TRUE
    /\ pc' = "final_schema"
    /\ UNCHANGED <<runs, submissions, widget_value, input_rendered, session, db, constructed,
                   user_query, schema, sql_schema, query, explanation, schema_text,
                   final_prompt, final_answer, explain_arg, outputs, before, outcome>>

QueryFailed(e) ==
    /\ response_data' = ErrorText(e)
    /\ run_arg' = query
    /\ query_failed' = TRUE
    /\ pc' = "final_schema"
    /\ UNCHANGED <<runs, submissions, widget_value, input_rendered, session, db, constructed,
                   user_query, schema, sql_schema, query, explanation, schema_text,
                   final_prompt, final_answer, explain_arg, outputs, before, outcome>>

\* Lines 100-104: step 3, db.run(query).
RunQuery ==
    /\ pc = "run"
    /\ calls' = Append(calls, "run")
    /\ db_used' = db_used \cup {session_db}
    /\ \/ /\ \E r \in QueryResults : response_data' = r
          /\ run_arg' = query
          /\ pc' = "final_schema"
          /\ UNCHANGED <<runs, submissions, widget_value, input_rendered, session, db, constructed,
                         user_query, schema, sql_schema, query, explanation,
                         schema_text, final_prompt, final_answer, explain_arg,
                         outputs, query_failed, before, outcome>>
       \/ \E e \in QueryErrors : QueryFailed(e)

\* Line 120
FinalSchema ==
    /\ pc = "final_schema"
    /\ calls' = Append(calls, "get_table_info")
    /\ db_used' = db_used \cup {session_db}
    /\ \/ /\ \E t \in TableInfos :
                /\ schema' = t
                /\ schema_text' = Slice(t, AnswerSchemaLimit)
          /\ pc' = "final_answer"
          /\ UNCHANGED <<runs, submissions, widget_value, input_rendered, session, db, constructed,
                         user_query, sql_schema, query, explanation, response_data,
                         final_prompt, final_answer, explain_arg, run_arg, outputs,
                         query_failed, before, outcome>>
       \/ Raise("schema_error")

\* Lines 121-127: step 4, the final-answer completion.
FinalAnswer ==
    /\ pc = "final_answer"
    /\ \/ /\ final_prompt' = [schema |-> schema_text,
                              question |-> user_query.text,
                              query |-> query,
                              response |-> Slice(str(response_data), ResponseLimit)]
          /\ \E a \in Answers : final_answer' = a
          /\ calls' = Append(calls, "summarize")
          /\ pc' = "return"
          /\ UNCHANGED <<runs, submissions, widget_value, input_rendered, session, handles,
                         user_query, schema, sql_schema, query, explanation,
                         response_data, schema_text, explain_arg, run_arg, outputs,
                         query_failed, before, outcome>>
       \/ CompletionFailed("summarize")

\* Lines 129 and 167: the QueryResult reaches the script.
Return ==
    /\ pc = "return"
    /\ outputs' = [set |-> TRUE, query |-> query, explanation |-> explanation,
                   answer |-> final_answer]
    /\ calls' = Append(calls, "return")
    /\ ClearLocals
    /\ pc' = "append_ai"
    /\ UNCHANGED <<runs, submissions, widget_value, input_rendered, session, handles, user_query,
                   query_failed, before, outcome>>

\* Lines 169-180
AppendAI ==
    /\ pc = "append_ai"
    /\ chat_history' = Append(chat_history, AIMessage(ChatText(outputs)))
    /\ pc' = "idle"
    /\ outcome' = "ok"
    /\ UNCHANGED <<runs, submissions, widget_value, input_rendered, session_keys, session_db,
                   handles, user_query, locals, outputs, calls, query_failed, before>>

\* One step of the script that is running.
Step ==
    \/ InitDatabase
    \/ InitChatHistory
    \/ ChatInput
    \/ GetSchema
    \/ GenerateSQL
    \/ ExplainSQL
    \/ RunQuery
    \/ FinalSchema
    \/ FinalAnswer
    \/ Return
    \/ AppendAI

Next ==
    \/ Rerun
    \/ Submit
    \/ InitDatabase
    \/ InitChatHistory
    \/ ChatInput
    \/ GetSchema
    \/ GenerateSQL
    \/ ExplainSQL
    \/ RunQuery
    \/ FinalSchema
    \/ FinalAnswer
    \/ Return
    \/ AppendAI

Spec == Init /\ [][Next]_vars

\* The script is synchronous: once started, a run goes on until it ends.
FairSpec == Spec /\ WF_vars(Step)

\* ------------------------------------------------------------ properties
Min(a, b) == IF a <= b THEN a ELSE b
Last(q) == q[Len(q)]
Count(x, q) == Cardinality({i \in 1..Len(q) : q[i] = x})
NonBlank(text) == \E i \in 1..Len(text) : text[i] # " "

\* p holds the first characters of t (both without empty chunks).
RECURSIVE IsPrefix(_, _)
IsPrefix(p, t) ==
    \/ p = <<>>
    \/ /\ t # <<>>
       /\ p[1].src = t[1].src
       /\ p[1].lo = t[1].lo
       /\ \/ p[1].hi = t[1].hi /\ IsPrefix(Tail(p), Tail(t))
          \/ Len(p) = 1 /\ p[1].hi < t[1].hi

\* p is t cut to at most limit characters.
IsCut(p, t, limit) ==
    /\ IsPrefix(p, t)
    /\ TextLen(p) = Min(TextLen(t), limit)
    /\ TextLen(p) <= limit

CompletionSteps == {"generate", "explain", "summarize"}
FullOrder ==
    <<"get_response", "get_table_info", "generate", "explain", "run",
      "get_table_info", "summarize", "return">>

\* The current run appended the Human message of its submission.
HumanAppended ==
    /\ Len(chat_history) > Len(before)
    /\ chat_history[Len(before) + 1] = HumanMessage(widget_value.text)

\* ... and exactly one AI message after it.
FollowedByOneAI ==
    /\ Len(chat_history) = Len(before) + 2
    /\ chat_history[Len(before) + 2].role = "AI"

\* C1, as claimed: once the run of a non-empty submission is over, its Human
\* message is followed by exactly one AI message, whatever failed inside.
C1_AlwaysAnswered == (pc = "idle" /\ HumanAppended) => FollowedByOneAI

\* C1, amended: every Human message appended by a submission is eventually
\* followed by exactly one AI message, also when the query execution fails,
\* unless a completion call or a schema fetch of that submission raises; then
\* the run ends with the Human message as the last one of the transcript.
C1_AnsweredUnlessRaise ==
    (pc # "idle" /\ HumanAppended)
        ~> (/\ pc = "idle"
            /\ HumanAppended
            /\ \/ outcome = "ok" /\ FollowedByOneAI
               \/ /\ outcome \in {"completion_error", "schema_error"}
                  /\ Len(chat_history) = Len(before) + 1)

C1_Witness ==
    pc = "idle" /\ outcome = "ok" /\ query_failed /\ HumanAppended /\ FollowedByOneAI

\* C2: a non-blank input whose pipeline succeeds invokes get_response once,
\* yields one QueryResult, and leaves the transcript as it was plus a Human
\* message carrying the input and then an AI message.
C2_SuccessAppendsHumanThenAI ==
    /\ (pc = "idle" /\ outcome = "ok") =>
          /\ NonBlank(user_query.text)
          /\ Count("get_response", calls) = 1
          /\ Count("return", calls) = 1
          /\ outputs.set
          /\ Len(chat_history) = Len(before) + 2
          /\ SubSeq(chat_history, 1, Len(before)) = before
          /\ chat_history[Len(before) + 1] = [role |-> "Human", content |-> user_query.text]
          /\ chat_history[Len(before) + 2].role = "AI"
    /\ (~user_query.is_none /\ NonBlank(user_query.text)) =>
          Count("get_response", calls) = 1

C2_Witness ==
    /\ pc = "idle"
    /\ outcome = "ok"
    /\ user_query.text = <<" ", "a">>
    /\ Len(chat_history) = Len(before) + 2

\* C3: a submission of an empty or whitespace-only text never changes the
\* transcript and never enters get_response: no completion call, no schema
\* fetch, no query execution.
C3_BlankInputIsIgnored ==
    (~widget_value.is_none /\ ~NonBlank(widget_value.text)) =>
        /\ chat_history = before
        /\ calls = <<>>
        /\ ~outputs.set
        /\ pc \in {"idle", "init_database", "init_chat_history", "chat_input"}

C3_Witness ==
    pc = "idle" /\ outcome = "skipped" /\ user_query.text = <<" ">> /\ submissions > 0

\* C4: a run whose last external call was a completion call ended there: the
\* call was made once (no retry), its failure ended the script run, no AI
\* message was appended after the Human message, and the chat input is on
\* the page so the user can submit again.
C4_CompletionFailurePropagates ==
    (pc = "idle" /\ calls # <<>> /\ Last(calls) \in CompletionSteps) =>
        /\ outcome = "completion_error"
        /\ \A st \in CompletionSteps : Count(st, calls) <= 1
        /\ ~outputs.set
        /\ chat_history = Append(before, HumanMessage(user_query.text))
        /\ input_rendered
        /\ runs < MaxRuns => ENABLED Submit

C4_Witness ==
    pc = "idle" /\ outcome = "completion_error" /\ Last(calls) = "summarize"

StartsWithMarker(t) == t # <<>> /\ t[1] = Chunk("Error running query: ", 0, MarkerLen)

\* C5, as claimed: after a failed query execution the final-answer completion
\* is invoked with the error text as the SQL response and get_response
\* returns a QueryResult.
C5_FailedQueryAlwaysAnswered ==
    query_failed =>
        /\ pc = "return" => final_prompt.response = response_data
        /\ pc = "idle" => outcome = "ok" /\ outputs.set

\* C5, amended: a failed query execution never ends the run by itself: the
\* result text becomes an error description starting with the marker
\* "Error running query: " and the pipeline goes on to step 4; the
\* final-answer completion gets the first 3000 characters of that text as the
\* SQL response, and get_response returns a QueryResult with query,
\* explanation and answer, unless the schema fetch of step 4 or the
\* final-answer completion itself raises.
C5_FailedQueryFeedsStep4 ==
    query_failed =>
        /\ pc \in {"final_schema", "final_answer", "return", "append_ai", "idle"}
        /\ pc \in {"final_schema", "final_answer", "return"} =>
              /\ StartsWithMarker(response_data)
              /\ TextLen(response_data) >= MarkerLen
        /\ pc = "return" =>
              /\ Last(calls) = "summarize"
              /\ IsCut(final_prompt.response, response_data, ResponseLimit)
        /\ pc = "append_ai" => outputs.set /\ calls = FullOrder
        /\ pc = "idle" =>
              \/ outcome = "ok" /\ outputs.set /\ calls = FullOrder
              \/ outcome = "schema_error" /\ calls = SubSeq(FullOrder, 1, 6)
              \/ outcome = "completion_error" /\ calls = SubSeq(FullOrder, 1, 7)

C5_Witness ==
    /\ pc = "return"
    /\ query_failed
    /\ TextLen(response_data) > ResponseLimit
    /\ TextLen(final_prompt.response) = ResponseLimit

\* C6: whenever st.session_state holds a transcript it is non-empty and
\* starts with the AI greeting; it holds one from the first time the script
\* passes line 135, so whenever the chat input is on the page; and before any
\* submission it holds the greeting alone.
C6_GreetingFirst ==
    /\ "chat_history" \in session_keys =>
          /\ Len(chat_history) >= 1
          /\ chat_history[1] = [role |-> "AI", content |-> Greeting]
    /\ (input_rendered \/ pc \notin {"idle", "init_database", "init_chat_history"}) =>
          "chat_history" \in session_keys
    /\ ("chat_history" \in session_keys /\ submissions = 0) =>
          chat_history = <<[role |-> "AI", content |-> Greeting]>>

C6_Witness ==
    pc = "idle" /\ submissions > 0 /\ Len(chat_history) >= 3 /\ runs >= 2

\* C7: the schema text in the SQL-generation prompt is the table info cut to
\* 6000 characters, the schema text in the final-answer prompt is the table
\* info cut to 4000 characters, and the result text in the final-answer
\* prompt is the execution result (or error text) cut to 3000 characters.
C7_PromptTextsAreCut ==
    /\ pc = "generate" => IsCut(sql_schema, schema, SqlSchemaLimit)
    /\ pc \in {"final_answer", "return"} => IsCut(schema_text, schema, AnswerSchemaLimit)
    /\ pc = "return" =>
          /\ final_prompt.schema = schema_text
          /\ IsCut(final_prompt.response, response_data, ResponseLimit)

C7_Witness ==
    /\ pc = "return"
    /\ query_failed
    /\ TextLen(response_data) = ResponseLimit + 1
    /\ TextLen(schema) = AnswerSchemaLimit + 1
    /\ TextLen(final_prompt.response) = ResponseLimit
    /\ TextLen(final_prompt.schema) = AnswerSchemaLimit

\* C8: the external calls of one get_response are made in the order schema
\* fetch, generate, explain, run, schema fetch, summarize, each at most once;
\* a run that returns made exactly three completion calls and one query
\* execution; the text explained, executed and summarized is the text step 1
\* returned.
C8_StepsInOrder ==
    /\ Len(calls) <= Len(FullOrder)
    /\ calls = SubSeq(FullOrder, 1, Len(calls))
    /\ pc \in {"append_ai"} \cup (IF outcome = "ok" THEN {"idle"} ELSE {}) =>
          /\ calls = FullOrder
          /\ Cardinality({i \in 1..Len(calls) : calls[i] \in CompletionSteps}) = 3
          /\ Count("run", calls) = 1
    /\ pc \in {"run", "final_schema", "final_answer", "return"} => explain_arg = query
    /\ pc \in {"final_schema", "final_answer", "return"} => run_arg = query
    /\ pc = "return" => final_prompt.query = query
    /\ pc = "append_ai" => outputs.set

C8_Witness ==
    pc = "idle" /\ outcome = "ok" /\ calls = FullOrder /\ outputs.query = <<"Q">>

C10_OneHandle ==
    /\ constructed <= 1
    /\ db_used \subseteq {session_db}

====
